---- MODULE Spec2Model ----
(***************************************************************************)
(* RSS2Telegram (rss2telegram_bot.py): the hourly scheduler, the per-entry *)
(* decision pipeline of process_rss_feed, the retrying publisher and the   *)
(* articles table, as one state machine.                                   *)
(*                                                                         *)
(* Python values are modelled as strings: None is the string "None", the   *)
(* booleans returned by the classifiers are "True" and "False", and        *)
(* Truthy is Python's truth test as the orchestrator's `if` applies it.    *)
(* Time is counted in whole hours of the UTC clock.                        *)
(***************************************************************************)
EXTENDS Integers, Sequences, FiniteSets, TLC

\* ------------------------------------------------------------------ bounds
MaxEntries == 2     \* longest feed the model enumerates
MaxCycles  == 2     \* iterations of main's while-loop the model follows
MaxTicks   == 2     \* clock steps the store specification follows

\* ------------------------------------------------------- program constants
\* range(4): one attempt too many
PUBLISH_ATTEMPTS_four == 3 + 1
PUBLISH_ATTEMPTS == 3      \* range(3)
BACKOFF_SECONDS  == 5      \* time.sleep(5)
RETENTION_DAYS   == 7      \* timedelta(days=7)
TITLE_LIMIT      == 30     \* LIMIT 30
RetentionHours   == RETENTION_DAYS * 24

\* ----------------------------------------------------------------- inputs
None == "None"

RSS_FEEDS == <<"feedA", "feedB">>
Links     == {"https://a/1", "https://a/2"}
\* the title under which a link is published by its feed
TitleOf(l) == IF l = "https://a/1" THEN "X launches Y" ELSE "Y launched by X"
FeedEntry == {[link |-> l, title |-> TitleOf(l)] : l \in Links}

\* what feedparser.parse can return for one poll: any entries, in any order
FeedContents ==
    UNION {[1..n -> FeedEntry] : n \in 0..MaxEntries}

\* the pages requests.get can return
Htmls == {"<html></html>", "<html>article</html>"}

\* free-text replies of the judgment service
Replies == {"yes", " Yes\n", "No", "Maybe"}

\* message ids the messaging API can assign
MessageIds == {101, 102}

\* hours by which the local clock (datetime.now) is ahead of UTC
\* (CURRENT_TIMESTAMP)
UtcOffsets == {0, 3}

\* --------------------------------------------------------- pure functions
\* Python's truth test on the values the orchestrator tests
Truthy(v) == v \notin {None, "False", ""}

\* str.strip().lower() on the replies
StripLower(reply) ==
    CASE reply = "yes"     -> "yes"
      [] reply = " Yes\n"  -> "yes"
      [] reply = "No"      -> "no"
      [] reply = "Maybe"   -> "maybe"

PyBool(b) == IF b THEN "True" ELSE "False"

\* filter_article: reply = None models the service call raising
filter_article(reply) ==
    IF reply = None THEN None ELSE PyBool(StripLower(reply) = "yes")

\* is_title_similar_with_chatgpt: reply = None models the call raising
is_title_similar_with_chatgpt(reply) ==
    IF reply = None THEN None ELSE PyBool(StripLower(reply) = "yes")

\* clean_html: the text of the page, or "" on timeout / parse failure
clean_html(html, failed) ==
    IF failed THEN ""
    ELSE IF html = "<html>article</html>" THEN "article" ELSE ""

\* generate_content: blank text returns None before any service call;
\* reply = None models the service call raising
SummaryCalled(cleaned_text) == cleaned_text # ""

generate_content(cleaned_text, reply) ==
    IF cleaned_text = "" THEN None ELSE reply

\* the permalink publish_to_telegram builds from the message id
MessageLink(m) ==
    CASE m = 101 -> "https://t.me/100200/101"
      [] m = 102 -> "https://t.me/100200/102"

\* ------------------------------------------------------------- the store
\* the articles table, in rowid order
Exists(st, link) == \E i \in 1..Len(st) : st[i].link = link

StoreLinks(st) == {st[i].link : i \in 1..Len(st)}

\* the INSERT without its commit: nothing reaches the table
save_article_to_db_uncommitted(st, link, title, keywords, telegram_link, utcnow) ==
    st

\* the table created without UNIQUE(link): every INSERT adds a row
save_article_to_db_no_unique(st, link, title, keywords, telegram_link, utcnow) ==
    Append(st, [link |-> link, title |-> title, keywords |-> keywords,
                telegram_link |-> telegram_link, datetime |-> utcnow])

\* the caller leaving telegram_link at its default, None
save_article_to_db_null_link(st, link, title, keywords, telegram_link, utcnow) ==
    IF Exists(st, link) THEN st
    ELSE Append(st, [link |-> link, title |-> title, keywords |-> keywords,
                     telegram_link |-> None, datetime |-> utcnow])

\* INSERT under the UNIQUE(link) constraint; IntegrityError is swallowed
save_article_to_db(st, link, title, keywords, telegram_link, utcnow) ==
    IF Exists(st, link) THEN st
    ELSE Append(st, [link |-> link, title |-> title, keywords |-> keywords,
                     telegram_link |-> telegram_link, datetime |-> utcnow])

\* what the INSERT raises: IntegrityError on a link the table already holds
InsertError(st, link) == IF Exists(st, link) THEN "IntegrityError" ELSE "none"

\* line 110: the one exception save_article_to_db catches
SwallowedErrors == {"IntegrityError"}

\* save_article_to_db lets the INSERT's exception out to its caller
save_article_to_db_raises(st, link) ==
    InsertError(st, link) \notin SwallowedErrors \cup {"none"}

\* DELETE FROM articles WHERE datetime < cutoff
Cutoff(localnow) == localnow - RetentionHours

Keep(st, cutoff) == SelectSeq(st, LAMBDA r : ~(r.datetime < cutoff))

cleanup_old_articles(st, localnow) == Keep(st, Cutoff(localnow))

\* SELECT title FROM articles ORDER BY datetime DESC LIMIT 30
\* (rows of equal datetime come out in rowid order)
RECURSIVE OrderByDatetimeDesc(_)
OrderByDatetimeDesc(st) ==
    IF st = <<>> THEN <<>>
    ELSE LET top == CHOOSE i \in 1..Len(st) :
                       /\ \A j \in 1..Len(st) : st[j].datetime <= st[i].datetime
                       /\ \A j \in 1..(i - 1) : st[j].datetime < st[i].datetime
             rest == [k \in 1..(Len(st) - 1) |->
                        IF k < top THEN st[k] ELSE st[k + 1]]
         IN  <<st[top]>> \o OrderByDatetimeDesc(rest)

Limit(s, n) == IF Len(s) <= n THEN s ELSE SubSeq(s, 1, n)

RecentTitles(st) ==
    LET rows == Limit(OrderByDatetimeDesc(st), TITLE_LIMIT)
    IN  [i \in 1..Len(rows) |-> rows[i].title]

\* ------------------------------------------------------------------ state
VARIABLES
    pc,               \* position of the single worker
    now,              \* UTC clock, hours
    utcOffset,        \* local clock = now + utcOffset
    cycle,            \* iterations of main's loop started so far
    store,            \* the articles table
    feedIdx,          \* index into RSS_FEEDS of the feed being processed
    entries,          \* feed.entries of the current poll
    existing_titles,  \* the titles loaded once per process_rss_feed call
    idx,              \* index of the current entry in entries
    cur,              \* the current entry, its locals and what was done for it
    delivered,        \* links whose post reached the channel
    lost,             \* links whose record was evicted or failed to insert
    thisC,            \* per link, what happened to it in this cycle
    prevC,            \* per link, what happened to it in the previous cycle
    evictedThis,      \* links deleted by this cycle's sweep
    evictedPrev,      \* links deleted by the previous cycle's sweep
    waited            \* the hour wait ran since the last start of a cycle

vars == <<pc, now, utcOffset, cycle, store, feedIdx, entries, existing_titles,
          idx, cur, delivered, lost, thisC, prevC, evictedThis,
          evictedPrev, waited>>

NoEntry ==
    [link |-> None, title |-> None, stage |-> "none", existed |-> FALSE,
     calls |-> {}, novelty |-> "unset", cleaned_text |-> "unset",
     relevant |-> "unset", post |-> "unset", photo_url |-> "unset",
     telegram_link |-> "unset", raisedAt |-> "none", titles_given |-> <<>>,
     attempt |-> 0, pubLog |-> <<>>, sent |-> <<>>, trace |-> <<>>,
     storeBefore |-> <<>>]

NoHistory == [l \in Links |-> "none"]

\* the table ensure_database_exists finds at start-up: empty, or holding a
\* record an earlier run of the program published a retention window ago
InitialStores ==
    { <<>>,
      <<[link |-> "https://a/1", title |-> TitleOf("https://a/1"),
         keywords |-> "article", telegram_link |-> MessageLink(101),
         datetime |-> 0 - RetentionHours]>> }

Init ==
    /\ pc = "initial_wait"
    /\ now = 0
    /\ utcOffset \in UtcOffsets
    /\ cycle = 0
    /\ store \in InitialStores
    /\ feedIdx = 1
    /\ entries = <<>>
    /\ existing_titles = <<>>
    /\ idx = 1
    /\ cur = NoEntry
    /\ delivered = StoreLinks(store)
    /\ lost = {}
    /\ thisC = NoHistory
    /\ prevC = NoHistory
    /\ evictedThis = {}
    /\ evictedPrev = {}
    /\ waited = FALSE

\* ---------------------------------------------------------------- history
\* what a cycle remembers of a link: "saved" and "failed" (publication
\* failed) outlive the other outcomes; a save after a failure is kept apart
Remember(old, outcome) ==
    CASE outcome = "saved"  -> IF old \in {"failed", "failed_then_saved"}
                               THEN "failed_then_saved" ELSE "saved"
      [] outcome = "failed" -> IF old \in {"saved", "failed_then_saved"}
                               THEN old ELSE "failed"
      [] outcome = "duplicate_link" ->
                               IF old \in {"saved", "failed_then_saved"}
                               THEN old ELSE "recorded_before"
      [] OTHER              -> IF old = "none" THEN "other" ELSE old

\* ------------------------------------------------------------- scheduler
\* wait_until_next_hour: sleep to the next full hour
wait_until_next_hour ==
    /\ now' = now + 1
    /\ waited' = TRUE

\* main, line 342: the wait before the first cycle
InitialWait ==
    /\ pc = "initial_wait"
    /\ wait_until_next_hour
    /\ pc' = "loop"
    /\ UNCHANGED <<utcOffset, cycle, store, feedIdx, entries, existing_titles,
                   idx, cur, delivered, lost, thisC, prevC,
                   evictedThis, evictedPrev>>

\* main, lines 344-347: top of the while-loop, the for-loop over RSS_FEEDS
\* begins
StartCycle ==
    /\ pc = "loop"
    /\ cycle < MaxCycles
    /\ cycle' = cycle + 1
    /\ feedIdx' = 1
    /\ pc' = "feed"
    /\ waited' = FALSE
    /\ prevC' = thisC
    /\ thisC' = NoHistory
    /\ evictedPrev' = evictedThis
    /\ evictedThis' = {}
    /\ cur' = NoEntry
    /\ UNCHANGED <<now, utcOffset, store, entries, existing_titles, idx,
                   delivered, lost>>

\* process_rss_feed, lines 275-282: parse the feed, load the titles once.
\* The SELECT runs outside the per-entry try: when it raises, the exception
\* leaves process_rss_feed and reaches main's handler.
LoadFeed ==
    /\ pc = "feed"
    /\ feedIdx <= Len(RSS_FEEDS)
    /\ \E es \in FeedContents, raised \in BOOLEAN :
         IF raised
         THEN /\ pc' = "main_except"
              /\ UNCHANGED <<entries, existing_titles>>
         ELSE /\ pc' = "entry"
              /\ entries' = es
              /\ existing_titles' = RecentTitles(store)
    /\ idx' = 1
    /\ cur' = NoEntry
    /\ UNCHANGED <<now, utcOffset, cycle, store, feedIdx, delivered, lost, thisC, prevC, evictedThis, evictedPrev, waited>>

\* process_rss_feed, line 284: the for-loop over feed.entries is exhausted,
\* process_rss_feed returns and main's for-loop takes the next feed
FeedDone ==
    /\ pc = "entry"
    /\ idx > Len(entries)
    /\ feedIdx' = feedIdx + 1
    /\ pc' = "feed"
    /\ entries' = <<>>
    /\ existing_titles' = <<>>
    /\ idx' = 1
    /\ cur' = NoEntry
    /\ UNCHANGED <<now, utcOffset, cycle, store, delivered, lost, thisC, prevC,
                   evictedThis, evictedPrev, waited>>

\* main, line 347: the for-loop over RSS_FEEDS is exhausted
AllFeedsDone ==
    /\ pc = "feed"
    /\ feedIdx > Len(RSS_FEEDS)
    /\ pc' = "cleanup"
    /\ UNCHANGED <<now, utcOffset, cycle, store, feedIdx, entries,
                   existing_titles, idx, cur, delivered, lost,
                   thisC, prevC, evictedThis, evictedPrev, waited>>

\* main, line 350: cleanup_old_articles; a failing DELETE raises into main's
\* handler
Cleanup ==
    /\ pc = "cleanup"
    /\ \E raised \in BOOLEAN :
         IF raised
         THEN /\ pc' = "main_except"
              /\ UNCHANGED <<store, evictedThis, lost>>
         ELSE /\ pc' = "wait"
              /\ store' = cleanup_old_articles(store, now + utcOffset)
              /\ evictedThis' = StoreLinks(store) \ StoreLinks(store')
              /\ lost' = lost \cup evictedThis'
    /\ UNCHANGED <<now, utcOffset, cycle, feedIdx, entries, existing_titles,
                   idx, cur, delivered, thisC, prevC,
                   evictedPrev, waited>>

\* main, line 353: the wait at the end of a cycle
Wait ==
    /\ pc = "wait"
    /\ wait_until_next_hour
    /\ pc' = "loop"
    /\ UNCHANGED <<utcOffset, cycle, store, feedIdx, entries, existing_titles,
                   idx, cur, delivered, lost, thisC, prevC,
                   evictedThis, evictedPrev>>

\* main, lines 354-355: the handler logs and the while-loop goes round
MainExcept ==
    /\ pc = "main_except"
    /\ pc' = "loop"
    /\ UNCHANGED <<now, utcOffset, cycle, store, feedIdx, entries,
                   existing_titles, idx, cur, delivered, lost,
                   thisC, prevC, evictedThis, evictedPrev, waited>>

\* ------------------------------------------------- process_rss_feed, entry
SchedulerUnchanged ==
    UNCHANGED <<now, utcOffset, cycle, feedIdx, entries, existing_titles,
                prevC, evictedThis, evictedPrev, waited>>

\* the loop takes the same entry again
NextIndex_stuck(i) == i

\* line 284: the for-loop over feed.entries moves to the next entry
NextIndex(i) == i + 1

\* `continue`, or the end of the loop body: on to the next entry
Continue(c, outcome) ==
    /\ cur' = [c EXCEPT !.stage = outcome]
    /\ idx' = NextIndex(idx)
    /\ pc' = "entry"
    /\ thisC' = [thisC EXCEPT ![c.link] = Remember(@, outcome)]

\* the handler re-raising: the exception leaves process_rss_feed
EntryExcept_propagates(c, at) ==
    /\ cur' = [c EXCEPT !.raisedAt = at, !.stage = "error"]
    /\ pc' = "main_except"
    /\ UNCHANGED <<idx, thisC>>

\* lines 325-326: the per-entry handler logs and the for-loop goes on
EntryExcept(c, at) ==
    Continue([c EXCEPT !.raisedAt = at], "error")

\* the SELECT matching the wrong column
already_exists_wrong_column(st, link) ==
    \E i \in 1..Len(st) : st[i].telegram_link = link

\* lines 290-293: SELECT 1 FROM articles WHERE link = ?
already_exists(st, link) == \E i \in 1..Len(st) : st[i].link = link

\* line 300: `if is_title_similar_with_chatgpt(...)`
TooSimilar(r) == Truthy(r)

\* `if filter_article(...) is False`: None slips through
Rejected_only_false(r) == r = "False"

\* line 309: `if not filter_article(...)`
Rejected(r) == ~Truthy(r)

\* `if post is None`: an empty post goes on to the publisher
NoPost_only_none(post) == post = None

\* line 314: `if not post`
NoPost(post) == ~Truthy(post)

\* the titles re-read from the table for every entry
TitlesForNovelty_refreshed == RecentTitles(store)

\* line 300: the second argument of is_title_similar_with_chatgpt
TitlesForNovelty == existing_titles

\* lines 286-297: read the entry, check its link against the store
CheckLink ==
    /\ pc = "entry"
    /\ idx <= Len(entries)
    /\ LET c == [NoEntry EXCEPT !.link = entries[idx].link,
                                !.title = entries[idx].title,
                                !.existed = entries[idx].link \in StoreLinks(store),
                                !.trace = <<"link_check">>,
                                !.storeBefore = store]
       IN \E raised \in BOOLEAN :
            IF raised
            THEN EntryExcept(c, "link_check")
            ELSE IF already_exists(store, c.link)
                 THEN Continue(c, "duplicate_link")
                 ELSE /\ cur' = [c EXCEPT !.stage = "checked"]
                      /\ pc' = "novelty"
                      /\ UNCHANGED <<idx, thisC>>
    /\ UNCHANGED <<store, delivered, lost>>
    /\ SchedulerUnchanged

\* lines 300-302: the novelty classifier on the titles loaded by LoadFeed
CheckNovelty ==
    /\ pc = "novelty"
    /\ \E reply \in Replies \cup {None} :
         LET r == is_title_similar_with_chatgpt(reply)
             c == [cur EXCEPT !.novelty = r,
                              !.titles_given = TitlesForNovelty,
                              !.calls = @ \cup {"novelty"}, !.trace = Append(@, "novelty")]
         IN IF TooSimilar(r)
            THEN Continue(c, "similar_title")
            ELSE /\ cur' = [c EXCEPT !.stage = "novel"]
                 /\ pc' = "fetch"
                 /\ UNCHANGED <<idx, thisC>>
    /\ UNCHANGED <<store, delivered, lost>>
    /\ SchedulerUnchanged

\* lines 305-307: fetch the page (requests.get may raise), extract its text
FetchAndClean ==
    /\ pc = "fetch"
    /\ \E raised \in BOOLEAN, html \in Htmls, failed \in BOOLEAN :
         LET c == [cur EXCEPT !.calls = @ \cup {"fetch"}, !.trace = Append(@, "fetch")]
         IN IF raised
            THEN EntryExcept(c, "fetch")
            ELSE /\ cur' = [c EXCEPT !.cleaned_text = clean_html(html, failed),
                                     !.stage = "extracted"]
                 /\ pc' = "filter"
                 /\ UNCHANGED <<idx, thisC>>
    /\ UNCHANGED <<store, delivered, lost>>
    /\ SchedulerUnchanged

\* lines 309-311: the relevance classifier; filter_prompt.format runs outside
\* filter_article's try and raises on a template it cannot fill
FilterArticle ==
    /\ pc = "filter"
    /\ \E raised \in BOOLEAN, reply \in Replies \cup {None} :
         LET r == filter_article(reply)
             c == [cur EXCEPT !.relevant = r,
                              !.calls = @ \cup {"relevance"}, !.trace = Append(@, "relevance")]
         IN IF raised
            THEN EntryExcept(cur, "relevance")
            ELSE IF Rejected(r)
                 THEN Continue(c, "rejected")
                 ELSE /\ cur' = [c EXCEPT !.stage = "relevant"]
                      /\ pc' = "generate"
                      /\ UNCHANGED <<idx, thisC>>
    /\ UNCHANGED <<store, delivered, lost>>
    /\ SchedulerUnchanged

\* what the generation service can return (after strip), None when it raises
SummaryReplies == {None, "", "<b>post</b>"}

\* lines 313-316: the summary generator; summary_prompt.format runs outside
\* generate_content's try and raises on a template it cannot fill
GenerateContent ==
    /\ pc = "generate"
    /\ \E raised \in BOOLEAN, reply \in SummaryReplies :
         LET post == generate_content(cur.cleaned_text, reply)
             c == [cur EXCEPT !.post = post,
                              !.calls = IF SummaryCalled(cur.cleaned_text)
                                        THEN @ \cup {"summary"} ELSE @,
                              !.trace = IF SummaryCalled(cur.cleaned_text)
                                        THEN Append(@, "summary") ELSE @]
         IN IF raised /\ SummaryCalled(cur.cleaned_text)
            THEN EntryExcept(cur, "summary")
            ELSE IF NoPost(post)
                 THEN Continue(c, "no_post")
                 ELSE /\ cur' = [c EXCEPT !.stage = "summarized"]
                      /\ pc' = "image"
                      /\ UNCHANGED <<idx, thisC>>
    /\ UNCHANGED <<store, delivered, lost>>
    /\ SchedulerUnchanged

\* line 319: extract_main_image never raises; a URL or None
PhotoUrls == {None, "https://a/og.png"}

ExtractImage ==
    /\ pc = "image"
    /\ \E photo \in PhotoUrls :
         cur' = [cur EXCEPT !.photo_url = photo,
                            !.calls = @ \cup {"image"}, !.trace = Append(@, "image"),
                            !.stage = "publishing"]
    /\ pc' = "publish"
    /\ UNCHANGED <<store, idx, thisC, delivered, lost>>
    /\ SchedulerUnchanged

\* ---------------------------------------------------- publish_to_telegram
AttemptEvent == [kind |-> "attempt", seconds |-> 0]
WaitEvent(n) == [kind |-> "wait", seconds |-> n]

\* the loop goes on to its handler's sleep after a delivery as well
AfterAttempt_keeps_trying(ok) == "publish_sleep"

\* line 264 returns out of the loop; line 265 enters the handler
AfterAttempt(ok) == IF ok THEN "save" ELSE "publish_sleep"

\* lines 256-266: one pass of the for-loop's try: send, build the permalink
\* and return it, or fall into the handler
PublishAttempt ==
    /\ pc = "publish"
    /\ cur.attempt < PUBLISH_ATTEMPTS
    /\ \E ok \in BOOLEAN, m \in MessageIds :
         LET c == [cur EXCEPT !.calls = @ \cup {"deliver"}, !.trace = Append(@, "deliver"),
                              !.pubLog = Append(@, AttemptEvent)]
         IN IF ok
            THEN /\ cur' = [c EXCEPT !.telegram_link = MessageLink(m),
                                     !.stage = "published",
                                     !.sent = Append(@, m)]
                 /\ delivered' = delivered \cup {cur.link}
                 /\ pc' = AfterAttempt(ok)
            ELSE /\ cur' = c
                 /\ pc' = AfterAttempt(ok)
                 /\ UNCHANGED delivered
    /\ UNCHANGED <<store, idx, thisC, lost>>
    /\ SchedulerUnchanged

\* lines 265-268: the handler sleeps, the for-loop takes the next attempt or,
\* exhausted, the function returns None
PublishSleep ==
    /\ pc = "publish_sleep"
    /\ LET c == [cur EXCEPT !.pubLog = Append(@, WaitEvent(BACKOFF_SECONDS)),
                            !.attempt = @ + 1]
       IN IF c.attempt < PUBLISH_ATTEMPTS
          THEN /\ pc' = "publish"
               /\ cur' = c
          ELSE /\ pc' = "save"
               /\ cur' = [c EXCEPT !.telegram_link = None,
                                   !.stage = "unpublished"]
    /\ UNCHANGED <<store, idx, thisC, delivered, lost>>
    /\ SchedulerUnchanged

\* the insert dropped: nothing is persisted
ShouldPersist_never(telegram_link) == FALSE

\* the guard dropped: every entry that reaches the publisher is persisted
ShouldPersist_always(telegram_link) == TRUE

\* `if telegram_link != "":` lets None through
ShouldPersist_nonempty(telegram_link) == telegram_link # ""

\* line 322: `if telegram_link:`
ShouldPersist(telegram_link) == Truthy(telegram_link)

\* how publish_to_telegram ended for the entry: with a permalink or with None
PublishOutcome(c) == IF c.telegram_link = None THEN "failed" ELSE "saved"

\* lines 322-323: persist only a published entry; an sqlite error other than
\* the swallowed IntegrityError raises into the per-entry handler
Persist ==
    /\ pc = "save"
    /\ IF ShouldPersist(cur.telegram_link)
       THEN \E raised \in BOOLEAN :
              LET c == [cur EXCEPT !.calls = @ \cup {"insert"}, !.trace = Append(@, "insert")]
              IN IF raised
                 THEN /\ EntryExcept(c, "insert")
                      /\ lost' = lost \cup {cur.link}
                      /\ UNCHANGED store
                 ELSE /\ store' = save_article_to_db(store, cur.link, cur.title,
                                      cur.cleaned_text, cur.telegram_link, now)
                      /\ Continue(c, PublishOutcome(c))
                      /\ UNCHANGED lost
       ELSE /\ Continue(cur, PublishOutcome(cur))
            /\ UNCHANGED <<store, lost>>
    /\ UNCHANGED delivered
    /\ SchedulerUnchanged

\* ---------------------------------------------------------- specification
Next ==
    \/ InitialWait
    \/ StartCycle
    \/ LoadFeed
    \/ FeedDone
    \/ AllFeedsDone
    \/ Cleanup
    \/ Wait
    \/ MainExcept
    \/ CheckLink
    \/ CheckNovelty
    \/ FetchAndClean
    \/ FilterArticle
    \/ GenerateContent
    \/ ExtractImage
    \/ PublishAttempt
    \/ PublishSleep
    \/ Persist

Spec == Init /\ [][Next]_vars

\* ------------------------------------------- the store, called directly
\* save_article_to_db and cleanup_old_articles applied to any arguments, at
\* any time, in any order.  cur records the last call; cycle counts the
\* steps of the clock.

\* how far the clock moves between two calls: an hour, or about a retention
\* window
ClockSteps == {1, RetentionHours - 1, RetentionHours}

StoreTitles == {TitleOf(l) : l \in Links}
StoreRefs   == {MessageLink(m) : m \in MessageIds}

NoCall == [op |-> "none", link |-> None, title |-> None,
           telegram_link |-> None, before |-> <<>>, at |-> 0,
           raised |-> FALSE]

InitStore ==
    /\ pc = "store"
    /\ now = 0
    /\ utcOffset \in UtcOffsets
    /\ cycle = 0
    /\ store = <<>>
    /\ feedIdx = 1
    /\ entries = <<>>
    /\ existing_titles = <<>>
    /\ idx = 1
    /\ cur = NoCall
    /\ delivered = {}
    /\ lost = {}
    /\ thisC = NoHistory
    /\ prevC = NoHistory
    /\ evictedThis = {}
    /\ evictedPrev = {}
    /\ waited = FALSE

StoreFrame ==
    UNCHANGED <<pc, utcOffset, feedIdx, entries, existing_titles, idx,
                delivered, lost, thisC, prevC, evictedThis, evictedPrev, waited>>

\* lines 96-111: save_article_to_db(link, title, keywords, telegram_link)
StoreSave ==
    /\ pc = "store"
    /\ \E link \in Links, title \in StoreTitles, ref \in StoreRefs :
         /\ store' = save_article_to_db(store, link, title, "article", ref, now)
         /\ cur' = [op |-> "save", link |-> link, title |-> title,
                    telegram_link |-> ref, before |-> store, at |-> now,
                    raised |-> save_article_to_db_raises(store, link)]
    /\ UNCHANGED <<now, cycle>>
    /\ StoreFrame

\* lines 80-93: cleanup_old_articles()
StoreSweep ==
    /\ pc = "store"
    /\ store' = cleanup_old_articles(store, now + utcOffset)
    /\ cur' = [NoCall EXCEPT !.op = "sweep", !.before = store, !.at = now]
    /\ UNCHANGED <<now, cycle>>
    /\ StoreFrame

\* time passes between two calls
StoreTick ==
    /\ pc = "store"
    /\ cycle < MaxTicks
    /\ \E d \in ClockSteps : now' = now + d
    /\ cycle' = cycle + 1
    /\ UNCHANGED <<store, cur>>
    /\ StoreFrame

NextStore ==
    \/ StoreSave
    \/ StoreSweep
    \/ StoreTick

SpecStore == InitStore /\ [][NextStore]_vars

\* ------------------------------------------- extract_main_image, alone
HTTP_OK == 200
MIN_SIDE == 300

OgUrl == "https://a/og.png"

\* what the page and the image server hold: the og:image meta tag's content
\* (None: no tag or no content attribute), whether the parser or
\* requests.get raises, the response's status and Content-Type header (<<>>
\* is the '' that line 221 takes for a missing header), and whether the body
\* decodes and to which size
OgContents   == {None, "", OgUrl}
Statuses     == {HTTP_OK, 404}
ContentTypes == {<<"image/", "png">>, <<"text/", "html">>, <<"image">>, <<>>}
Sides        == {MIN_SIDE - 1, MIN_SIDE, MIN_SIDE + 1}

Pages ==
    [parse_raises : BOOLEAN, og : OgContents, fetch_raises : BOOLEAN,
     status : Statuses, content_type : ContentTypes, decodable : BOOLEAN,
     width : Sides, height : Sides]

StartsWith(s, prefix) ==
    /\ Len(s) >= Len(prefix)
    /\ SubSeq(s, 1, Len(prefix)) = prefix

\* the image is accepted when one side is large enough
BigEnough_either(width, height) == width >= MIN_SIDE \/ height >= MIN_SIDE

\* line 226
BigEnough(width, height) == width >= MIN_SIDE /\ height >= MIN_SIDE

Raised == "raised"

\* lines 210-231: the body of the try
extract_main_image_try(page) ==
    IF page.parse_raises THEN Raised
    ELSE IF page.og \in {None, ""} THEN None
    ELSE IF page.fetch_raises THEN Raised
    ELSE IF page.status # HTTP_OK THEN None
    ELSE IF ~StartsWith(page.content_type, <<"image/">>) THEN None
    ELSE IF ~page.decodable THEN Raised
    ELSE IF BigEnough(page.width, page.height) THEN page.og
    ELSE None

\* lines 204-234: the except logs and falls through to `return None`
extract_main_image(page) ==
    LET r == extract_main_image_try(page)
    IN  [value |-> IF r = Raised THEN None ELSE r, raises |-> FALSE]

InitImage ==
    /\ pc = "image_call"
    /\ cur \in [page : Pages, result : {None}, raises : {FALSE}]
    /\ now = 0
    /\ utcOffset = 0
    /\ cycle = 0
    /\ store = <<>>
    /\ feedIdx = 1
    /\ entries = <<>>
    /\ existing_titles = <<>>
    /\ idx = 1
    /\ delivered = {}
    /\ lost = {}
    /\ thisC = NoHistory
    /\ prevC = NoHistory
    /\ evictedThis = {}
    /\ evictedPrev = {}
    /\ waited = FALSE

ResolveImage ==
    /\ pc = "image_call"
    /\ LET out == extract_main_image(cur.page)
       IN  cur' = [cur EXCEPT !.result = out.value, !.raises = out.raises]
    /\ pc' = "image_done"
    /\ UNCHANGED <<now, utcOffset, cycle, store, feedIdx, entries,
                   existing_titles, idx, delivered, lost, thisC, prevC,
                   evictedThis, evictedPrev, waited>>

NextImage == ResolveImage

SpecImage == InitImage /\ [][NextImage]_vars

\* ---------------------------------------- process_rss_feed, to its end
\* main has just entered its for-loop over RSS_FEEDS; every external call a
\* feed's processing makes returns or raises, so the worker always takes its
\* next step
InitFeed ==
    /\ pc = "feed"
    /\ now = 1
    /\ utcOffset = 0
    /\ cycle = 1
    /\ store \in InitialStores
    /\ feedIdx = 1
    /\ entries = <<>>
    /\ existing_titles = <<>>
    /\ idx = 1
    /\ cur = NoEntry
    /\ delivered = StoreLinks(store)
    /\ lost = {}
    /\ thisC = NoHistory
    /\ prevC = NoHistory
    /\ evictedThis = {}
    /\ evictedPrev = {}
    /\ waited = FALSE

NextFeed ==
    \/ LoadFeed
    \/ FeedDone
    \/ CheckLink
    \/ CheckNovelty
    \/ FetchAndClean
    \/ FilterArticle
    \/ GenerateContent
    \/ ExtractImage
    \/ PublishAttempt
    \/ PublishSleep
    \/ Persist

SpecFeed == InitFeed /\ [][NextFeed]_vars /\ WF_vars(NextFeed)

\* ------------------------------------------------------------ properties
InEntry == cur.link \in Links

Unchanged == store = cur.storeBefore

\* C1: an entry whose link has a record in the store at its link check is
\* skipped there: no novelty, fetch, relevance, summary, image or delivery
\* call is made for it and nothing is inserted.
C1_DedupShortCircuits ==
    (InEntry /\ cur.existed) =>
        /\ cur.calls = {}
        /\ Unchanged
        /\ cur.stage \in {"duplicate_link", "error"}
        /\ pc = "entry"

C1_Witness ==
    /\ InEntry /\ cur.existed
    /\ cur.stage = "duplicate_link"
    /\ cur.calls = {}

\* C2: every record of the store carries a non-empty published reference
\* and its link was delivered before; an entry that is not published (its
\* publish call failed, or it was skipped earlier) leaves the store as it
\* found it.
C2_RecordOnlyAfterPublish ==
    /\ \A i \in 1..Len(store) :
         /\ store[i].telegram_link \notin {None, "", "unset"}
         /\ store[i].link \in delivered
    /\ (InEntry /\ cur.stage # "saved") => Unchanged
    /\ (InEntry /\ cur.stage = "saved") =>
         /\ cur.telegram_link \notin {None, "", "unset"}
         /\ Len(store) = Len(cur.storeBefore) + 1

C2_Witness ==
    /\ InEntry
    /\ cur.stage = "failed"
    /\ cur.telegram_link = None
    /\ Unchanged
    /\ \E i \in 1..Len(store) : store[i].datetime > 0

\* C3: an entry whose novelty check returned yes ("True") or unknown (None)
\* is skipped at the novelty stage: not fetched, not classified, not
\* summarised, not delivered, not inserted.
C3_NoveltyYesOrUnknownSkips ==
    (InEntry /\ cur.novelty \in {"True", None}) =>
        /\ cur.calls \subseteq {"novelty"}
        /\ cur.stage = "similar_title"
        /\ Unchanged

\* C4: an entry whose relevance check returned anything but yes ("False" or
\* None) is skipped: no summary, no image, no delivery, no insert.
C4_RelevanceGate ==
    (InEntry /\ cur.relevant \in {"False", None}) =>
        /\ cur.calls \cap {"summary", "image", "deliver", "insert"} = {}
        /\ cur.stage = "rejected"
        /\ Unchanged

C4_Witness ==
    /\ InEntry
    /\ cur.relevant = None
    /\ cur.stage = "rejected"
    /\ cur.calls = {"novelty", "fetch", "relevance"}

\* C5: an entry whose extracted text is empty is skipped at the fetch and
\* extract stage: neither the relevance classifier nor the summary generator
\* is called, nothing is delivered, nothing is inserted.
C5_EmptyTextSkips ==
    (InEntry /\ cur.cleaned_text = "") =>
        /\ cur.calls \cap {"relevance", "summary", "deliver", "insert"} = {}
        /\ Unchanged

\* the publish call of the current entry has returned
PublishReturned ==
    /\ InEntry
    /\ "deliver" \in cur.calls
    /\ pc \notin {"publish", "publish_sleep"}

AttemptsIn(log) ==
    Cardinality({i \in 1..Len(log) : log[i].kind = "attempt"})

\* each attempt but the last is followed by one wait of n seconds and then by
\* the next attempt
SeparatedBy(log, n) ==
    \A i \in 1..Len(log) :
        (log[i].kind = "attempt" /\ \E j \in (i + 1)..Len(log) :
                                        log[j].kind = "attempt") =>
            /\ log[i + 1] = [kind |-> "wait", seconds |-> n]
            /\ log[i + 2].kind = "attempt"

\* C6: a publish call none of whose attempts succeeds makes exactly 3
\* attempts, one 5-second wait between each attempt and the next, and returns
\* None; no publish call ever makes a 4th attempt.
C6_ThreeAttemptsThenFailure ==
    /\ InEntry => AttemptsIn(cur.pubLog) <= 3
    /\ (PublishReturned /\ cur.stage \notin {"published", "saved"}
                        /\ cur.raisedAt = "none") =>
          /\ cur.telegram_link = None
          /\ AttemptsIn(cur.pubLog) = 3
          /\ SeparatedBy(cur.pubLog, 5)
          /\ "insert" \notin cur.calls

C6_Witness ==
    /\ PublishReturned
    /\ cur.telegram_link = None
    /\ AttemptsIn(cur.pubLog) = 3
    /\ pc = "save"

\* a step in which the processing of an entry raises
EntryRaises == cur'.stage = "error" /\ cur' # cur

C8_NextRunOnlyAfterWait ==
    pc = "loop" => waited

\* outcomes of a cycle after which the link has a record in the store
Recorded == {"saved", "failed_then_saved", "recorded_before"}

\* C9 as stated: an entry presented in the previous cycle and not evicted by
\* its sweep gets no classifier or generator call in this cycle.
C9_PresentedTwiceSkipped ==
    (InEntry /\ prevC[cur.link] # "none" /\ cur.link \notin evictedPrev) =>
        cur.calls \cap {"novelty", "relevance", "summary"} = {}

\* C9, amended: an entry whose link had a record when the previous cycle was
\* through with it (published and recorded then, or recorded before), and
\* whose record the sweep in between did not evict, is skipped at the link
\* check of this cycle, before any call.
C9_RecordedThenSkipped ==
    (InEntry /\ prevC[cur.link] \in Recorded /\ cur.link \notin evictedPrev) =>
        /\ cur.existed
        /\ cur.calls = {}
        /\ cur.stage \in {"duplicate_link", "error"}

C9_Witness ==
    /\ InEntry
    /\ prevC[cur.link] = "saved"
    /\ cur.link \notin evictedPrev
    /\ cur.stage = "duplicate_link"

\* the calls an entry must have received to stand at a stage
RequiredCalls(stage) ==
    CASE stage \in {"checked", "duplicate_link", "error", "none"} -> {}
      [] stage \in {"novel", "similar_title"} -> {"novelty"}
      [] stage = "extracted" -> {"novelty", "fetch"}
      [] stage \in {"rejected", "relevant", "no_post"} ->
            {"novelty", "fetch", "relevance"}
      [] stage = "summarized" -> {"novelty", "fetch", "relevance", "summary"}
      [] stage = "publishing" ->
            {"novelty", "fetch", "relevance", "summary", "image"}
      [] stage \in {"published", "unpublished", "failed"} ->
            {"novelty", "fetch", "relevance", "summary", "image", "deliver"}
      [] stage = "saved" ->
            {"novelty", "fetch", "relevance", "summary", "image", "deliver",
             "insert"}

\* the entry passed the link check and went as far as its stages let it
FullyReprocessed ==
    /\ ~cur.existed
    /\ cur.stage # "duplicate_link"
    /\ RequiredCalls(cur.stage) \subseteq cur.calls
    /\ cur.stage = "similar_title" => cur.novelty = "True"
    /\ cur.stage = "rejected" => cur.relevant \in {"False", None}
    /\ cur.stage = "no_post" => cur.post \in {None, ""}
    /\ cur.stage = "failed" => cur.telegram_link = None

\* C10 as stated: an entry whose publication failed in the previous cycle is
\* not stopped by the link check of this cycle and is reprocessed.
C10_FailedThenReprocessed ==
    (InEntry /\ prevC[cur.link] \in {"failed", "failed_then_saved"}
             /\ cur.raisedAt # "link_check") => FullyReprocessed

\* C10, amended: an entry whose publication failed in the previous cycle,
\* and whose link no other presentation has published and recorded since
\* (later in that cycle or earlier in this one), is not stopped by the link
\* check and is reprocessed, stage by stage.
C10_FailedUnrecordedReprocessed ==
    (InEntry /\ prevC[cur.link] = "failed"
             /\ thisC[cur.link] \notin {"saved", "failed_then_saved"}
             /\ cur.raisedAt # "link_check") => FullyReprocessed

C10_Witness ==
    /\ InEntry
    /\ prevC[cur.link] = "failed"
    /\ thisC[cur.link] = "none"
    /\ cur.stage = "publishing"
    /\ "novelty" \in cur.calls


\* the rows of the table that carry a link
RecordsOf(st, link) == {i \in 1..Len(st) : st[i].link = link}

\* the entry went through every stage: link not recorded, novelty no, text
\* extracted, relevance yes, a post generated, a send that succeeded, and its
\* processing is over
HappyPath ==
    /\ InEntry
    /\ ~cur.existed
    /\ cur.novelty = "False"
    /\ cur.cleaned_text \notin {"", "unset"}
    /\ cur.relevant = "True"
    /\ cur.post \notin {None, "", "unset"}
    /\ cur.photo_url \in PhotoUrls
    /\ cur.telegram_link \notin {None, "unset"}
    /\ pc = "entry"

OneRecordWithRef ==
    /\ Cardinality(RecordsOf(store, cur.link)) = 1
    /\ \A i \in RecordsOf(store, cur.link) :
         store[i].telegram_link \notin {None, "", "unset"}

C12_InsertIdempotent ==
    /\ \A i, j \in 1..Len(store) :
         store[i].link = store[j].link => i = j
    /\ cur.op = "save" =>
         /\ Cardinality(RecordsOf(store, cur.link)) = 1
         /\ ~cur.raised
         /\ cur.link \in StoreLinks(cur.before) => store = cur.before

C12_Witness ==
    /\ cur.op = "save"
    /\ cur.link \in StoreLinks(cur.before)
    /\ store = cur.before
    /\ \E i \in 1..Len(store) :
         /\ store[i].link = cur.link
         /\ store[i].title # cur.title
         /\ store[i].telegram_link # cur.telegram_link

\* C13: a sweep removes exactly the records written more than 7 days before
\* it, on the clock that stamped them, and keeps every record that is 7 days
\* old or newer.
C13_SweepRemovesOlderThan7Days ==
    cur.op = "sweep" =>
        store = SelectSeq(cur.before,
                          LAMBDA r : ~(cur.at - r.datetime > 7 * 24))


Range(s) == {s[i] : i \in 1..Len(s)}

EntryPcs == {"entry", "novelty", "fetch", "filter", "generate", "image",
             "publish", "publish_sleep", "save"}

\* C14: every novelty call of a feed run is given the same titles, the list
\* (of at most 30) loaded from the store when the run began; no step of the
\* run, an insert included, changes that list.
C14_TitlesSnapshotPerFeed ==
    /\ [](/\ (InEntry /\ "novelty" \in cur.calls) =>
                 cur.titles_given = existing_titles
          /\ Len(existing_titles) <= 30)
    /\ [][ /\ (pc = "feed" /\ pc' = "entry") =>
                 existing_titles' = RecentTitles(store)
           /\ (pc \in EntryPcs /\ pc' \in EntryPcs) =>
                 existing_titles' = existing_titles ]_vars

\* a second entry passes the novelty check against titles that lack the one
\* recorded earlier in the same feed run
C14_Witness ==
    /\ InEntry
    /\ cur.novelty = "False"
    /\ cur.stage = "novel"
    /\ \E i \in 1..Len(store) :
         /\ store[i].title \notin Range(cur.titles_given)
         /\ store[i].title # cur.title

\* C15: no feed is processed before the first wait; from then on a cycle
\* runs every configured feed in configured order, then the eviction, then
\* the wait, and only then the next cycle.
C15_CycleOrder ==
    /\ [](cycle = 0 => pc \in {"initial_wait", "loop"})
    /\ [][ /\ (pc = "feed" /\ feedIdx <= Len(RSS_FEEDS)) => pc' = "entry"
           /\ (pc = "entry" /\ pc' # "entry" /\ pc' \notin EntryPcs) =>
                 (pc' = "feed" /\ feedIdx' = feedIdx + 1)
           /\ pc' = "cleanup" => feedIdx > Len(RSS_FEEDS)
           /\ pc = "cleanup" => pc' = "wait"
           /\ pc = "wait" => pc' = "loop"
           /\ (pc = "loop" /\ pc' = "feed") => (waited /\ feedIdx' = 1) ]_vars

\* C16: an entry whose summary generation failed (None) or came back empty
\* is skipped: no image resolution, no delivery attempt, no insert.
C16_NoPostSkips ==
    (InEntry /\ cur.post \in {None, ""}) =>
        /\ cur.calls \cap {"image", "deliver", "insert"} = {}
        /\ cur.stage = "no_post"
        /\ Unchanged

C16_Witness ==
    /\ InEntry
    /\ cur.post = ""
    /\ "summary" \in cur.calls
    /\ cur.stage = "no_post"


ValidImageResponse(p) ==
    /\ ~p.parse_raises
    /\ p.og \notin {None, ""}
    /\ ~p.fetch_raises
    /\ p.status = 200
    /\ p.content_type # <<>>
    /\ p.content_type[1] = "image/"
    /\ p.decodable

\* C17: with a declared image reference and a valid image response the
\* resolver returns the URL exactly when both decoded sides are at least 300
\* and absent otherwise; after a failure at any validation step it returns
\* absent; it never raises.
C17_ImageAcceptedIffBigEnough ==
    pc = "image_done" =>
        LET p == cur.page
        IN  /\ ~cur.raises
            /\ ValidImageResponse(p) =>
                 /\ (cur.result = p.og) <=> (p.width >= 300 /\ p.height >= 300)
                 /\ (p.width < 300 \/ p.height < 300) => cur.result = None
            /\ ~ValidImageResponse(p) => cur.result = None

\* a valid response whose image is wide enough but one pixel too low
C17_Witness ==
    /\ pc = "image_done"
    /\ ValidImageResponse(cur.page)
    /\ cur.page.width = 300
    /\ cur.page.height = 299
    /\ cur.result = None


\* C18: a link is successfully published a second time only if its record
\* was removed by an eviction, or the insert after an earlier successful
\* publish failed.
C18_PublishedAtMostOnce ==
    [][ (/\ pc = "publish"
         /\ cur'.stage = "published"
         /\ cur.link \in delivered) => cur.link \in lost ]_vars

\* a link recorded in this cycle is presented again, by the same feed or by
\* the next one, and stops at the link check
C18_Witness ==
    /\ InEntry
    /\ thisC[cur.link] = "saved"
    /\ cur.link \in delivered
    /\ cur.link \notin lost
    /\ cur.stage = "duplicate_link"


\* C19: a publish call delivers at most one message in at most 3 attempts;
\* it is still trying only while nothing was delivered; once it has returned,
\* its result is the reference of the delivered message, the successful
\* attempt being the last thing it did, or None if nothing was delivered.
C19_StopsAtFirstSuccess ==
    (InEntry /\ "deliver" \in cur.calls) =>
        /\ Len(cur.sent) <= 1
        /\ AttemptsIn(cur.pubLog) <= 3
        /\ pc \in {"publish", "publish_sleep"} => cur.sent = <<>>
        /\ PublishReturned =>
             IF cur.sent # <<>>
             THEN /\ cur.telegram_link = MessageLink(cur.sent[1])
                  /\ cur.pubLog[Len(cur.pubLog)].kind = "attempt"
             ELSE cur.telegram_link = None

\* the second attempt succeeded and the call returned without a third
C19_Witness ==
    /\ PublishReturned
    /\ Len(cur.sent) = 1
    /\ cur.telegram_link = MessageLink(cur.sent[1])
    /\ AttemptsIn(cur.pubLog) = 2
    /\ Len(cur.pubLog) = 3


CountIn(s, x) == Cardinality({i \in 1..Len(s) : s[i] = x})

OncePerEntry == {"link_check", "novelty", "fetch", "relevance", "summary",
                 "image", "insert"}

\* C20: the processing of a feed comes to its end; the entries are taken one
\* at a time in feed order; an entry costs at most one link check, novelty
\* call, page fetch, relevance call, summary call, image resolution and
\* insert, and at most three delivery attempts.
C20_FeedTerminatesBounded ==
    /\ (pc \in EntryPcs) ~> (pc = "feed")
    /\ [](InEntry =>
            /\ \A x \in OncePerEntry : CountIn(cur.trace, x) <= 1
            /\ CountIn(cur.trace, "deliver") <= 3)
    /\ [][ /\ (pc = "entry" /\ pc' # "feed") =>
                 /\ cur'.link = entries[idx].link
                 /\ cur'.trace[1] = "link_check"
           /\ (pc \in EntryPcs /\ pc' # "feed") =>
                 /\ idx' \in {idx, idx + 1}
                 /\ (idx' = idx + 1) <=> (pc' = "entry") ]_vars

\* the last entry of a two-entry feed went the whole way after three
\* delivery attempts, the feed's loop is over
C20_Witness ==
    /\ pc = "entry"
    /\ idx = 3
    /\ Len(entries) = 2
    /\ cur.link = entries[2].link
    /\ CountIn(cur.trace, "deliver") = 3
    /\ CountIn(cur.trace, "insert") = 1

====
